---- MODULE Spec2Model ----
(***************************************************************************)
(* Model of the property sync engine of smart_off_plan_backend:            *)
(* PropertySyncService (scheduler, id walk, reconcile, staleness sweep,    *)
(* cleanup, retrying HTTP client), the Property store it writes, and the   *)
(* read-through PropertyService.getPropertyById that writes the same       *)
(* store.                                                                  *)
(*                                                                         *)
(* Time is counted in hours.  An asynchronous method is a process with a   *)
(* position (pc); other work interleaves at its awaits.                    *)
(***************************************************************************)
EXTENDS Integers, Sequences, FiniteSets, TLC

\* ------------------------------------------------------------- bounds
MaxId == 2              \* external ids are 1..MaxId
MaxTime == 25           \* the clock stops advancing here
MaxPages == 2           \* list pages upstream serves before it must end the walk
MaxWalkLen == 2         \* ids one walk collects at most
MaxSlots == 2           \* runSync invocations that can be in flight together
MaxRetriesBound == 3    \* largest config.maxRetries drawn for makeApiRequest
MaxStored == 5          \* documents in the stores the recent-data check is tried on

\* ------------------------------------------------- program constants
CacheTTLHours == 24         \* createProperty / refreshCache(24)
PageLimit == 50             \* "limit=50" of the list request
DefaultMaxRetries == 3
DefaultBatchSize == 10
DefaultMinSyncIntervalHours == 24
ManyFacilities == 10        \* facilities.length >= 10
ManyImages == 5             \* architecture.length >= 5
MinFeaturedPrice == 1000000 \* applyFeatureRules: min_price >= 1000000
RecentWindowHours == 24     \* shouldSkipSync: oneDayAgo
RecentThresholdPercent == 80

Ids == 1..MaxId
Slots == 1..MaxSlots
TickSteps == {25}           \* hours the clock may advance in one step

\* HTTP outcomes of one axios.get: a status code, or 0 for a network error/timeout.
NetworkError == 0
Statuses == {200, 400, 401, 403, 404, 429, 500, NetworkError}

VARIABLES
    now,        \* the clock (Date.now()), in hours
    store,      \* the properties collection: externalId -> document (partial function)
    isRunning,  \* PropertySyncService.isRunning
    intervalId, \* PropertySyncService.intervalId: TRUE when the periodic timer is armed
    config,     \* PropertySyncService.config, and whether baseUrl and apiKey are set
    cyc,        \* the runSync invocations in flight, one per slot
    absent,     \* history: per id, consecutive completed full walks that did not list it
    ev,         \* history: the step just taken
    rq,         \* one makeApiRequest call examined on its own (RetrySpec)
    lastCycleAt \* history: when the last runSync returned its stats (NoDate: never)

vars == <<now, store, isRunning, intervalId, config, cyc, absent, ev, rq, lastCycleAt>>

\* ------------------------------------------------------ makeApiRequest

\* The Error thrown for a response status inside the try block of makeApiRequest.
\* kind "notfound" is the only message that contains "404".
ErrorOfStatus(st) ==
    IF st = 401 \/ st = 403 THEN [kind |-> "auth", status |-> st]
    ELSE IF st = 404 THEN [kind |-> "notfound", status |-> st]
    ELSE IF st >= 500 \/ st = NetworkError THEN [kind |-> "axios", status |-> st]
    ELSE [kind |-> "failed", status |-> st]

MaxRetriesExceeded == [kind |-> "maxretries", status |-> 429]

Pow2(n) == 2 ^ n

\* error.message.includes("404")
Includes404(err) == err.kind = "notfound"

\* The for loop of makeApiRequest from iteration `attempt` on; outs[k] is the outcome
\* of the k-th axios.get, delays the waits made so far (ms).
RECURSIVE RetryLoop(_, _, _, _)
RetryLoop(outs, maxRetries, attempt, delays) ==
    IF attempt > maxRetries
    THEN \* the loop ran out (only a 429 `continue` gets here): throw after the loop
         [ok |-> FALSE, error |-> MaxRetriesExceeded, calls |-> attempt - 1, delays |-> delays]
    ELSE LET st == outs[attempt] IN
         IF st >= 200 /\ st < 300
         THEN [ok |-> TRUE, error |-> [kind |-> "none", status |-> st],
               calls |-> attempt, delays |-> delays]
         ELSE IF st = 429
         THEN RetryLoop(outs, maxRetries, attempt + 1,
                        Append(delays, Pow2(attempt) * 2000))
         ELSE \* 401/403/404/other thrown in the try block, or axios rejecting
              \* (5xx, network): all land in the same catch
              IF attempt = maxRetries
              THEN [ok |-> FALSE, error |-> ErrorOfStatus(st),
                    calls |-> attempt, delays |-> delays]
              ELSE RetryLoop(outs, maxRetries, attempt + 1,
                             Append(delays, Pow2(attempt) * 1000))

\* Fault variant: a client that gives up after its first call.
makeApiRequestOnce(outs, maxRetries) == RetryLoop(outs, 1, 1, <<>>)

makeApiRequest(outs, maxRetries) == RetryLoop(outs, maxRetries, 1, <<>>)

OutcomeSeqs(n) == [1..n -> Statuses]

\* What a caller of makeApiRequest can tell apart: a response, an error whose
\* message contains "404", any other error.
ResultKind(r) ==
    IF r.ok THEN "ok" ELSE IF Includes404(r.error) THEN "notfound" ELSE "error"

\* What one request can come to, over every sequence of outcomes of its HTTP calls,
\* per value of config.maxRetries: whether its first call was answered 404, and the
\* result makeApiRequest hands its caller.
ApiOutcomes ==
    [m \in 1..MaxRetriesBound |->
        {[first404 |-> o[1] = 404, kind |-> ResultKind(makeApiRequest(o, m))] :
            o \in OutcomeSeqs(m)}]

ApiResults == [m \in 1..MaxRetriesBound |-> {x.kind : x \in ApiOutcomes[m]}]

\* ------------------------------------------------------------ the store

NoVal == "null"     \* a field upstream omits or sends as null
NoDate == -1        \* a null Date
NoPrice == -1       \* a price upstream omits or sends as null, a null Number

Min(a, b) == IF a < b THEN a ELSE b

Range(s) == {s[k] : k \in 1..Len(s)}

\* An upstream detail payload (propertyData): facilities and architecture are
\* the lengths of its arrays, area is its area name.
DetailBody(id, partner, facilities, architecture, area) ==
    [id |-> id, name |-> "A", is_partner_project |-> partner,
     facilities |-> facilities, architecture |-> architecture, area |-> area,
     min_price |-> NoPrice]

\* The payload upstream serves for id while its detail does not change.
DetailBodies(id) == {DetailBody(id, TRUE, 0, 0, "Regular Area")}

\* Payloads of an upstream whose detail of id changes between fetches: each rule
\* of analyzeFeaturingPotential is matched by one of them and missed by another.
VariedBodies(id) ==
    {DetailBody(id, TRUE, ManyFacilities, 0, "Regular Area"),
     DetailBody(id, FALSE, ManyFacilities - 1, ManyImages, "Regular Area"),
     DetailBody(id, FALSE, 0, ManyImages - 1, "Business Bay"),
     DetailBody(id, FALSE, 0, 0, "Regular Area")}

\* Payloads of an upstream that sends a name, sends it empty, or leaves it out,
\* and sends a price of 0 or none.
SparseBodies(id) ==
    {[DetailBody(id, partner, 0, 0, "Regular Area") EXCEPT !.name = name,
                                                           !.min_price = price] :
        partner \in BOOLEAN, name \in {"A", "B", "", NoVal}, price \in {NoPrice, 0}}

\* The payloads the upstream of env serves for id.
Bodies(env, id) ==
    IF env.sparse THEN SparseBodies(id)
    ELSE IF env.varied THEN VariedBodies(id) ELSE DetailBodies(id)

\* A detail response fetchPropertyDetails finds no property in (it returns null).
NoData == [id |-> 0, name |-> NoVal, is_partner_project |-> FALSE,
           facilities |-> 0, architecture |-> 0, area |-> NoVal, min_price |-> 0]

\* Fault variant: a ?? b, which falls back on null or undefined alone.
OrElseNullish(a, b) == IF a # NoVal THEN a ELSE b

\* a || b for strings: the empty string is falsy as null and undefined are
OrElse(a, b) == IF a \notin {NoVal, ""} THEN a ELSE b

\* a || null for numbers: 0 is falsy as null and undefined are
OrNull(a) == IF a \in {NoPrice, 0} THEN NoPrice ELSE a

\* a ?? b for numbers
Coalesce(a, b) == IF a # NoPrice THEN a ELSE b

\* Fault variant: the comparison of isExpired turned around.
isExpiredInverted(doc, t) == t < doc.cacheExpiresAt

\* PropertySchema.methods.isExpired
isExpired(doc, t) == t > doc.cacheExpiresAt

\* premiumAreas of analyzeFeaturingPotential; area.includes(name) is membership,
\* the areas of the model being bare names.
PremiumAreas == {"Downtown Dubai", "Dubai Marina", "Palm Jumeirah", "Business Bay", "DIFC"}

\* Fault variant: the reasons depend on what the record already holds (a partner
\* project is not reported twice).
FeaturingReasonsOnce(doc, data) ==
    IF doc.featureReason # {} THEN {}
    ELSE IF data.is_partner_project THEN {"is_partner_project"} ELSE {}

\* The reasons analyzeFeaturingPotential computes: from the detail alone.
FeaturingReasons(doc, data) ==
    (IF data.is_partner_project THEN {"is_partner_project"} ELSE {})
    \cup (IF data.facilities >= ManyFacilities THEN {"facilities.length >= 10"} ELSE {})
    \cup (IF data.architecture >= ManyImages THEN {"architecture.length >= 5"} ELSE {})
    \cup (IF data.area \in PremiumAreas THEN {"premium_location"} ELSE {})

\* Fault variant: the reasons of this detail replace the ones recorded before.
analyzeFeaturingPotentialReplacing(doc, data) ==
    [doc EXCEPT !.featureReason = FeaturingReasons(doc, data)]

\* analyzeFeaturingPotential(property, propertyData)
analyzeFeaturingPotential(doc, data) ==
    IF FeaturingReasons(doc, data) # {}
    THEN [doc EXCEPT !.featureReason = doc.featureReason \cup FeaturingReasons(doc, data)]
    ELSE doc

\* The document createProperty builds and saves.
createProperty(data, t) ==
    analyzeFeaturingPotential(
        [externalId |-> data.id,
         name |-> OrElse(data.name, "Unknown Property"),
         is_partner_project |-> data.is_partner_project,
         min_price |-> OrNull(data.min_price),
         completePropertyData |-> data,
         status |-> "active",
         featured |-> FALSE,
         pendingReview |-> FALSE,
         featureReason |-> {},
         reelly_status |-> TRUE,
         lastFeaturedAt |-> NoDate,
         lastFetchedAt |-> t,
         cacheExpiresAt |-> t + CacheTTLHours],
        data)

\* PropertySchema.methods.refreshCache(hours)
refreshCache(doc, hours, t) ==
    [doc EXCEPT !.lastFetchedAt = t, !.cacheExpiresAt = t + hours]

\* Fault variant: an update that puts the record back on display.
updatePropertyActivating(doc, data, t) ==
    analyzeFeaturingPotential(
        refreshCache(
            [doc EXCEPT !.name = OrElse(data.name, doc.name),
                        !.is_partner_project = data.is_partner_project,
                        !.min_price = Coalesce(data.min_price, doc.min_price),
                        !.completePropertyData = data,
                        !.status = "active",
                        !.reelly_status = TRUE],
            CacheTTLHours, t),
        data)

\* The document updateProperty saves, from the document read earlier.
updateProperty(doc, data, t) ==
    analyzeFeaturingPotential(
        refreshCache(
            [doc EXCEPT !.name = OrElse(data.name, doc.name),
                        !.is_partner_project = data.is_partner_project,
                        !.min_price = Coalesce(data.min_price, doc.min_price),
                        !.completePropertyData = data,
                        !.reelly_status = TRUE],
            CacheTTLHours, t),
        data)

\* document.save() of a document read earlier as `old` and since changed to `new`:
\* mongoose writes the modified paths onto the stored document.
SaveModified(cur, old, new) ==
    [f \in DOMAIN cur |-> IF new[f] # old[f] THEN new[f] ELSE cur[f]]

\* ------------------------------------------------------- one sync cycle

ZeroStats ==
    [totalProcessed |-> 0, newProperties |-> 0, updatedProperties |-> 0,
     skippedDuplicates |-> 0, markedInactive |-> 0, errors |-> 0]

\* A slot with no runSync in it.
IdleCycle ==
    [pc |-> "idle", trigger |-> "none", propertyIds |-> <<>>, currentPage |-> 1,
     i |-> 0, batchEnd |-> 0, pos |-> 0, existing |-> <<>>, stats |-> ZeroStats,
     walkCut |-> FALSE, skipped |-> {}, fetched |-> {}, noData |-> 0,
     reconciled |-> {}]

\* runSync entered: stats zeroed, configuration present, the walk about to start.
NewCycle(trigger) == [IdleCycle EXCEPT !.pc = "walk", !.trigger = trigger]

InFlight == {c \in Slots : cyc[c].pc # "idle"}

\* The slot a new runSync invocation takes.
FreeSlot(c) == cyc[c].pc = "idle" /\ \A d \in Slots : d < c => cyc[d].pc # "idle"

\* The environment a specification draws, env:
\*   overlap  an entry point (start, timer, manual trigger) may be called while a
\*            cycle is in flight
\*   faults   store calls of processProperty may throw
\*   writers  the other writers of the store (read-through, cleanup) and the clock
\*            may act while a cycle is in flight
\*   walk     the ids one walk collects at most
\*   pages    the list pages upstream serves before it must end the walk
\*   track    the history variables absent and lastCycleAt are kept
\*   sparse   upstream's details leave fields out or send them empty
MayBegin(env) == env.overlap \/ InFlight = {}
\* Store calls of processProperty that may throw: the lookup, the save, or none.
Faults(env) == IF env.faults THEN {"none", "lookup", "save"} ELSE {"none"}
Quiet(env) == env.writers \/ InFlight = {}

\* absent after a cycle that completed its sweep on the ids of a walk
AbsentAfter(ids, cut) ==
    [id \in Ids |-> IF cut \/ id \in Range(ids) THEN 0 ELSE Min(absent[id] + 1, 2)]

AbsentReset == [id \in Ids |-> 0]

\* Fault variant: a loop that leaves for the sweep after its first batch.
LoopHeadSingleBatch(cy, i) ==
    IF i = 0 /\ i < Len(cy.propertyIds)
    THEN [cy EXCEPT !.pc = "item", !.i = i, !.pos = i, !.existing = <<>>,
                    !.batchEnd = Min(i + config.batchSize, Len(cy.propertyIds))]
    ELSE [cy EXCEPT !.pc = "sweep", !.i = i, !.existing = <<>>]

\* The for loop of runSync at its head with start index i: the next batch is
\* sliced, or the loop is over and the sweep follows.
LoopHead(cy, i) ==
    IF i < Len(cy.propertyIds)
    THEN [cy EXCEPT !.pc = "item", !.i = i, !.pos = i, !.existing = <<>>,
                    !.batchEnd = Min(i + config.batchSize, Len(cy.propertyIds))]
    ELSE [cy EXCEPT !.pc = "sweep", !.i = i, !.existing = <<>>]

\* processBatch moves on after one id, whether processProperty returned or threw;
\* after the last id of the batch the for loop of runSync adds config.batchSize.
processBatchNext(cy) ==
    IF cy.pos + 1 < cy.batchEnd
    THEN [cy EXCEPT !.pc = "item", !.pos = cy.pos + 1, !.existing = <<>>]
    ELSE LoopHead(cy, cy.i + config.batchSize)

\* Fault variant: a catch that goes on without counting the error.
processBatchCatchUncounted(cy) == processBatchNext(cy)

\* The catch of processBatch: count the error, go on with the next id.
processBatchCatch(cy) ==
    processBatchNext([cy EXCEPT !.stats.errors = cy.stats.errors + 1])

CurrentId(cy) == cy.propertyIds[cy.pos + 1]

\* Fault variant: without metadata, any page with entries is followed by another.
hasMorePagesWhileNonEmpty(page, currentPage) ==
    IF page.pagination.present
    THEN page.pagination.has_next \/ currentPage < page.pagination.pages
    ELSE page.length > 0

\* hasMorePages after a non-empty page
hasMorePages(page, currentPage) ==
    IF page.pagination.present
    THEN page.pagination.has_next \/ currentPage < page.pagination.pages
    ELSE page.length >= PageLimit

\* List pages upstream may answer with: the ids kept by filter(id => id), the
\* number of entries (entries without an id are dropped by the filter), and the
\* pagination metadata when there is one.
PageIdSeqs == UNION {[1..n -> Ids] : n \in 0..MaxWalkLen}
NoPagination == [present |-> FALSE, has_next |-> FALSE, pages |-> 0]
Paginations ==
    {NoPagination}
    \cup [present : {TRUE}, has_next : BOOLEAN, pages : 1..MaxPages]
Pages ==
    {pg \in [ids : PageIdSeqs, length : 0..PageLimit, pagination : Paginations] :
        pg.length \in {Len(pg.ids), PageLimit}}

\* Fault variant: the ids of a page assigned to the list instead of pushed onto it.
PushPageIdsAssigning(propertyIds, pageIds) == pageIds

\* propertyIds.push(...pageIds)
PushPageIds(propertyIds, pageIds) == propertyIds \o pageIds

\* Fault variant: every failed list page ends the walk with the ids collected so far.
EndsWalkOnAnyError(r) == r # "ok"

\* fetchAllPropertyIds, the catch: errorMessage.includes("404") ends the walk with
\* the ids collected so far; any other error is thrown on.
EndsWalk(r) == r = "notfound"

\* runSync, the catch: the cycle fails.  A cycle that runSmartSync started is run
\* once more by the catch of runSmartSync.
FailCycle(c, env) ==
    /\ cyc' = [cyc EXCEPT ![c] = IF cyc[c].trigger = "smart"
                                 THEN NewCycle("fallback") ELSE IdleCycle]
    /\ absent' = IF env.track THEN AbsentReset ELSE absent
    /\ ev' = [op |-> "cycleFailed", c |-> c, trigger |-> cyc[c].trigger,
              stage |-> cyc[c].pc, page |-> cyc[c].currentPage,
              collected |-> cyc[c].propertyIds,
              stats |-> [cyc[c].stats EXCEPT !.errors = cyc[c].stats.errors + 1]]
    /\ UNCHANGED <<now, store, isRunning, intervalId, config, rq, lastCycleAt>>

\* Fault variant: a runSync that does not look at its configuration.
MissingApiConfigurationIgnored == FALSE

\* runSync: !this.baseUrl || !this.apiKey
MissingApiConfiguration == ~config.baseUrl \/ ~config.apiKey

\* runSync throws "Missing API configuration" before it calls fetchAllPropertyIds;
\* its catch counts the error and rethrows.
ConfigurationError(c, env) ==
    /\ cyc[c].pc = "walk"
    /\ MissingApiConfiguration
    /\ cyc' = [cyc EXCEPT ![c] = IF cyc[c].trigger = "smart"
                                 THEN NewCycle("fallback") ELSE IdleCycle]
    /\ absent' = IF env.track THEN AbsentReset ELSE absent
    /\ ev' = [op |-> "cycleFailed", c |-> c, trigger |-> cyc[c].trigger,
              stage |-> "config", page |-> cyc[c].currentPage,
              collected |-> cyc[c].propertyIds,
              stats |-> [cyc[c].stats EXCEPT !.errors = cyc[c].stats.errors + 1]]
    /\ UNCHANGED <<now, store, isRunning, intervalId, config, rq, lastCycleAt>>

\* fetchAllPropertyIds: one iteration of the while loop.
FetchPage(c, env) ==
    /\ cyc[c].pc = "walk"
    /\ ~MissingApiConfiguration
    /\ \E r \in ApiResults[config.maxRetries] :
        IF r = "ok"
        THEN \E page \in Pages :
                LET cy == cyc[c]
                    more == page.length # 0 /\ hasMorePages(page, cy.currentPage)
                    ids == IF page.length = 0 THEN cy.propertyIds
                           ELSE PushPageIds(cy.propertyIds, page.ids)
                    walked == [cy EXCEPT !.propertyIds = ids,
                                         !.currentPage = IF page.length = 0
                                                         THEN cy.currentPage
                                                         ELSE cy.currentPage + 1]
                IN  /\ Len(ids) <= env.walk
                    /\ cy.currentPage >= env.pages => ~more
                    /\ cyc' = [cyc EXCEPT ![c] = IF more THEN walked
                                                 ELSE LoopHead(walked, 0)]
                    /\ ev' = [op |-> "page", c |-> c, result |-> r, more |-> more,
                              collected |-> cy.propertyIds, page |-> cy.currentPage,
                              pageIds |-> IF page.length = 0 THEN <<>> ELSE page.ids,
                              length |-> page.length, pagination |-> page.pagination]
                    /\ UNCHANGED <<now, store, isRunning, intervalId, config,
                                   absent, rq, lastCycleAt>>
        ELSE IF EndsWalk(r)
        THEN \* "If it's a 404 or similar, we've reached the end"
             /\ cyc' = [cyc EXCEPT ![c] = LoopHead([cyc[c] EXCEPT !.walkCut = TRUE], 0)]
             /\ ev' = [op |-> "page", c |-> c, result |-> r, more |-> FALSE,
                       collected |-> cyc[c].propertyIds, page |-> cyc[c].currentPage,
                       pageIds |-> <<>>, length |-> 0, pagination |-> NoPagination]
             /\ UNCHANGED <<now, store, isRunning, intervalId, config,
                            absent, rq, lastCycleAt>>
        ELSE FailCycle(c, env)

\* processProperty up to the detail fetch: count the id, look it up, and skip it
\* when the stored copy has not expired (reactivating it if it was marked absent).
ProcessLookup(c, env) ==
    /\ cyc[c].pc = "item"
    /\ \E fault \in Faults(env) :
        LET cy == [cyc[c] EXCEPT !.stats.totalProcessed = cyc[c].stats.totalProcessed + 1]
            id == CurrentId(cy)
            found == id \in DOMAIN store
            fresh == found /\ ~isExpired(store[id], now)
            skip == [cy EXCEPT !.stats.skippedDuplicates = cy.stats.skippedDuplicates + 1,
                               !.skipped = cy.skipped \cup {id}]
            reactivate == fresh /\ ~store[id].reelly_status
            threw == fault = "lookup" \/ (fault = "save" /\ reactivate)
        IN  /\ cyc' = [cyc EXCEPT ![c] =
                        IF fault = "lookup" THEN processBatchCatch(cy)
                        ELSE IF ~fresh THEN [cy EXCEPT !.pc = "fetch",
                                        !.existing = IF found THEN <<store[id]>> ELSE <<>>]
                        ELSE IF threw THEN processBatchCatch(skip)
                        ELSE processBatchNext(
                                [skip EXCEPT !.reconciled = skip.reconciled \cup {id}])]
            /\ store' = IF reactivate /\ ~threw
                        THEN [store EXCEPT ![id].reelly_status = TRUE,
                                           ![id].lastFetchedAt = now]
                        ELSE store
            /\ ev' = [op |-> IF threw THEN "itemError"
                             ELSE IF ~fresh THEN "lookup"
                             ELSE IF reactivate THEN "reactivated" ELSE "skipped",
                      c |-> c, id |-> id, idx |-> cy.pos, batchEnd |-> cy.batchEnd,
                      errorsBefore |-> cy.stats.errors, fetches |-> 0, result |-> "none",
                      first404 |-> FALSE]
    /\ UNCHANGED <<now, isRunning, intervalId, config, absent, rq, lastCycleAt>>

\* processProperty from the detail fetch on: fetchPropertyDetails, then
\* updateProperty or createProperty and the counters.
\* Fault variant: a collection without the unique index on externalId.
DuplicateKeyUnchecked(id) == FALSE

\* The unique index on externalId: the insert of an id that has a document is
\* rejected (E11000), and save() throws.
DuplicateKey(id) == id \in DOMAIN store

ProcessFetch(c, env) ==
    /\ cyc[c].pc = "fetch"
    /\ \E x \in ApiOutcomes[config.maxRetries], fault \in Faults(env) \ {"lookup"} :
       \E body \in IF x.kind = "ok" THEN Bodies(env, CurrentId(cyc[c])) \cup {NoData}
                   ELSE {NoData} :
        LET r == x.kind
            cy == [cyc[c] EXCEPT !.fetched = cyc[c].fetched \cup {CurrentId(cyc[c])}]
            id == CurrentId(cy)
            nodata == r = "notfound" \/ (r = "ok" /\ body.id = 0)
            isUpdate == cy.existing # <<>>
            \* save() of a document deleted meanwhile, or insert of an id that exists
            \* meanwhile (unique index), throws
            writeFails == fault = "save" \/ (isUpdate /\ id \notin DOMAIN store)
                                  \/ (~isUpdate /\ DuplicateKey(id))
            failed == r = "error" \/ (~nodata /\ writeFails)
        IN  /\ cyc' = [cyc EXCEPT ![c] =
                        IF failed THEN processBatchCatch(cy)
                        ELSE IF nodata
                        THEN \* return without a counter: noData keeps the tally
                             processBatchNext([cy EXCEPT !.noData = cy.noData + 1])
                        ELSE IF isUpdate
                        THEN processBatchNext([cy EXCEPT !.stats.updatedProperties =
                                                cy.stats.updatedProperties + 1,
                                                !.reconciled = cy.reconciled \cup {id}])
                        ELSE processBatchNext([cy EXCEPT !.stats.newProperties =
                                                cy.stats.newProperties + 1,
                                                !.reconciled = cy.reconciled \cup {id}])]
            /\ store' = IF failed \/ nodata THEN store
                        ELSE IF isUpdate
                        THEN [store EXCEPT ![id] = SaveModified(store[id], cy.existing[1],
                                        updateProperty(cy.existing[1], body, now))]
                        ELSE [k \in DOMAIN store \cup {id} |->
                                IF k = id THEN createProperty(body, now) ELSE store[k]]
            /\ ev' = [op |-> IF failed THEN "itemError"
                             ELSE IF nodata THEN "nodata"
                             ELSE IF isUpdate THEN "updated" ELSE "created",
                      c |-> c, id |-> id, idx |-> cy.pos, batchEnd |-> cy.batchEnd,
                      errorsBefore |-> cy.stats.errors, fetches |-> 1, result |-> r,
                      first404 |-> x.first404, isUpdate |-> isUpdate,
                      data |-> IF failed \/ nodata THEN NoData ELSE body]
    /\ UNCHANGED <<now, isRunning, intervalId, config, absent, rq, lastCycleAt>>

\* Fault variant: a sweep that takes the listed ids for the missing ones.
InactivePropertiesListed(activePropertyIds) ==
    {id \in DOMAIN store :
        store[id].reelly_status /\ id \in Range(activePropertyIds)}

\* Fault variant: a sweep whose query forgets the reelly_status filter.
InactivePropertiesAnyStatus(activePropertyIds) ==
    {id \in DOMAIN store : id \notin Range(activePropertyIds)}

\* The documents markInactiveProperties flips: reelly_status true and not listed.
InactiveProperties(activePropertyIds) ==
    {id \in DOMAIN store :
        store[id].reelly_status /\ id \notin Range(activePropertyIds)}

\* The updateOne calls of markInactiveProperties that may throw, per document; each
\* is caught and skipped.  A find that throws returns 0 with nothing written, which
\* is what every updateOne throwing comes to.
SweepFailures(env, inactiveProperties) ==
    IF env.faults THEN SUBSET inactiveProperties ELSE {{}}

\* markInactiveProperties(propertyIds), then runSync returns its stats.
Sweep(c, env) ==
    /\ cyc[c].pc = "sweep"
    /\ \E failed \in SweepFailures(env, InactiveProperties(cyc[c].propertyIds)) :
       LET cy == cyc[c]
           marked == InactiveProperties(cy.propertyIds) \ failed
           markedCount == Cardinality(InactiveProperties(cy.propertyIds)) - Cardinality(failed)
       IN  /\ store' = [id \in DOMAIN store |->
                          IF id \in marked
                          THEN [store[id] EXCEPT !.reelly_status = FALSE,
                                                 !.lastFetchedAt = now]
                          ELSE store[id]]
           /\ absent' = IF env.track THEN AbsentAfter(cy.propertyIds, cy.walkCut)
                       ELSE absent
           /\ lastCycleAt' = IF env.track THEN now ELSE lastCycleAt
           /\ ev' = [op |-> "cycleDone", c |-> c, trigger |-> cy.trigger,
                     propertyIds |-> cy.propertyIds, walkCut |-> cy.walkCut,
                     marked |-> marked, skipped |-> cy.skipped, fetched |-> cy.fetched,
                     noData |-> cy.noData, reconciled |-> cy.reconciled,
                     failed |-> failed,
                     absentBefore |-> absent,
                     stats |-> [cy.stats EXCEPT !.markedInactive = markedCount]]
    /\ cyc' = [cyc EXCEPT ![c] = IdleCycle]
    /\ UNCHANGED <<now, isRunning, intervalId, config, rq>>

\* ------------------------------------------------------------ scheduler

ActiveListed == {id \in DOMAIN store : store[id].status = "active" /\ store[id].reelly_status}

\* Fault variant: a threshold test that also runs at exactly 80%.
shouldSkipSyncAbove ==
    LET propertyCount == Cardinality(ActiveListed)
        recentPropertiesCount ==
            Cardinality({id \in ActiveListed :
                            store[id].lastFetchedAt >= now - RecentWindowHours})
    IN  IF propertyCount = 0 THEN FALSE
        ELSE IF recentPropertiesCount = 0 THEN FALSE
        ELSE IF recentPropertiesCount * 100 <= RecentThresholdPercent * propertyCount
        THEN FALSE
        ELSE TRUE

\* shouldSkipSync().skip
shouldSkipSync ==
    LET propertyCount == Cardinality(ActiveListed)
        recentPropertiesCount ==
            Cardinality({id \in ActiveListed :
                            store[id].lastFetchedAt >= now - RecentWindowHours})
    IN  IF propertyCount = 0 THEN FALSE
        ELSE IF recentPropertiesCount = 0 THEN FALSE
        ELSE IF recentPropertiesCount * 100 < RecentThresholdPercent * propertyCount
        THEN FALSE
        ELSE TRUE

\* shouldSkipSync() with its catch: a countDocuments that throws answers skip false.
shouldSkipSyncCatch(threw) == IF threw THEN FALSE ELSE shouldSkipSync

\* Fault variant: a getLastSyncInfo that answers the present time when the store
\* holds no record.
LastSuccessfulSyncOrNow ==
    IF DOMAIN store = {} THEN now
    ELSE CHOOSE t \in {store[id].lastFetchedAt : id \in DOMAIN store} :
            \A id \in DOMAIN store : store[id].lastFetchedAt <= t

\* getLastSyncInfo().lastSuccessfulSync: the newest lastFetchedAt in the store
LastSuccessfulSync ==
    IF DOMAIN store = {} THEN NoDate
    ELSE CHOOSE t \in {store[id].lastFetchedAt : id \in DOMAIN store} :
            \A id \in DOMAIN store : store[id].lastFetchedAt <= t

\* Whether runSmartSync goes on to runSync.
SmartSyncRuns ==
    /\ ~(config.skipIfRecentData /\ shouldSkipSync)
    /\ LastSuccessfulSync # NoDate =>
            ~(now - LastSuccessfulSync < config.minSyncIntervalHours)

\* runSmartSync(): the cycle it begins, or nothing when it skips.
runSmartSync(env, op) ==
    IF SmartSyncRuns
    THEN /\ MayBegin(env)
         /\ \E c \in Slots :
              /\ FreeSlot(c)
              /\ cyc' = [cyc EXCEPT ![c] = NewCycle("smart")]
              /\ ev' = [op |-> op, ran |-> TRUE, c |-> c, inflight |-> InFlight]
    ELSE /\ ev' = [op |-> op, ran |-> FALSE, c |-> 0, inflight |-> InFlight]
         /\ UNCHANGED cyc

\* Fault variant: a start() without the isRunning test.
StartAgain(env) ==
    /\ IF ~config.enabled
       THEN /\ ev' = [op |-> "startIgnored", ran |-> FALSE, c |-> 0, inflight |-> InFlight]
            /\ UNCHANGED <<isRunning, intervalId, cyc>>
       ELSE /\ isRunning' = TRUE
            /\ intervalId' = TRUE
            /\ runSmartSync(env, "start")
    /\ UNCHANGED <<now, store, config, absent, rq, lastCycleAt>>

\* start()
Start(env) ==
    /\ IF ~config.enabled \/ isRunning
       THEN /\ ev' = [op |-> "startIgnored", ran |-> FALSE, c |-> 0, inflight |-> InFlight]
            /\ UNCHANGED <<isRunning, intervalId, cyc>>
       ELSE /\ isRunning' = TRUE
            /\ intervalId' = TRUE
            /\ runSmartSync(env, "start")
    /\ UNCHANGED <<now, store, config, absent, rq, lastCycleAt>>

\* Fault variant: a stop() that does not clear the interval.
StopLeavingTimer ==
    /\ isRunning
    /\ isRunning' = FALSE
    /\ ev' = [op |-> "stop"]
    /\ UNCHANGED <<now, store, intervalId, config, cyc, absent, rq, lastCycleAt>>

\* stop()
Stop ==
    /\ isRunning
    /\ isRunning' = FALSE
    /\ intervalId' = FALSE
    /\ ev' = [op |-> "stop"]
    /\ UNCHANGED <<now, store, config, cyc, absent, rq, lastCycleAt>>

\* The setInterval callback fires.
TimerTick(env) ==
    /\ intervalId
    /\ runSmartSync(env, "timer")
    /\ UNCHANGED <<now, store, isRunning, intervalId, config, absent, rq, lastCycleAt>>

\* Fault variant: a manual trigger that goes through the gate of runSmartSync.
TriggerManualSyncSmart(env) ==
    /\ runSmartSync(env, "manual")
    /\ UNCHANGED <<now, store, isRunning, intervalId, config, absent, rq, lastCycleAt>>

\* triggerManualSync()
TriggerManualSync(env) ==
    /\ MayBegin(env)
    /\ \E c \in Slots :
        /\ FreeSlot(c)
        /\ cyc' = [cyc EXCEPT ![c] = NewCycle("manual")]
        /\ ev' = [op |-> "manual", ran |-> TRUE, c |-> c, inflight |-> InFlight]
    /\ UNCHANGED <<now, store, isRunning, intervalId, config, absent, rq, lastCycleAt>>

\* updateConfig(newConfig) with one field given.  A new intervalMinutes restarts a
\* running service: stop(), then start().
ConfigValues(f) ==
    IF f = "intervalMinutes" THEN {1440}
    ELSE BOOLEAN

UpdateConfig(env) ==
    /\ \E f \in {"enabled", "intervalMinutes"} :
        \E v \in ConfigValues(f) :
            /\ f # "intervalMinutes" => config[f] # v
            /\ config' = [config EXCEPT ![f] = v]
            /\ IF f = "intervalMinutes" /\ isRunning
               THEN IF config.enabled
                    THEN /\ isRunning' = TRUE
                         /\ intervalId' = TRUE
                         /\ runSmartSync(env, "restart")
                    ELSE /\ isRunning' = FALSE
                         /\ intervalId' = FALSE
                         /\ ev' = [op |-> "restart", ran |-> FALSE, c |-> 0,
                                   inflight |-> InFlight]
                         /\ UNCHANGED cyc
               ELSE /\ ev' = [op |-> "updateConfig", field |-> f]
                    /\ UNCHANGED <<isRunning, intervalId, cyc>>
    /\ UNCHANGED <<now, store, absent, rq, lastCycleAt>>

\* cleanupProperties()
CleanupGraceHours == 720
cleanupProperties(env) ==
    /\ Quiet(env)
    /\ LET expired == {id \in DOMAIN store : store[id].cacheExpiresAt < now}
           reviewed == [id \in DOMAIN store |->
                          IF id \in expired
                          THEN [store[id] EXCEPT !.pendingReview = TRUE]
                          ELSE store[id]]
           removed == {id \in DOMAIN store :
                          /\ ~reviewed[id].reelly_status
                          /\ reviewed[id].lastFetchedAt < now - CleanupGraceHours
                          /\ reviewed[id].status = "disabled"}
       IN  /\ store' = [id \in DOMAIN store \ removed |-> reviewed[id]]
           /\ store' # store
           /\ ev' = [op |-> "cleanup", expired |-> expired, removed |-> removed]
    /\ UNCHANGED <<now, isRunning, intervalId, config, cyc, absent, rq, lastCycleAt>>

\* ----------------------------------- PropertyService.getPropertyById

\* applyFeatureRules(propertyData)
FeatureRuleAreas == {"Downtown Dubai", "Dubai Marina", "Palm Jumeirah", "DIFC"}
FeatureRuleReasons(doc) ==
    (IF doc.completePropertyData.min_price >= MinFeaturedPrice
     THEN {"min_price_aed >= 1000000"} ELSE {})
    \cup (IF doc.is_partner_project THEN {"is_partner_project"} ELSE {})
    \cup (IF doc.completePropertyData.facilities >= ManyFacilities
          THEN {"facilities.length >= 10"} ELSE {})
    \cup (IF doc.completePropertyData.area \in FeatureRuleAreas
          THEN {"premium_area"} ELSE {})
applyFeatureRules(doc, t) ==
    IF FeatureRuleReasons(doc) # {}
    THEN [doc EXCEPT !.featured = TRUE, !.pendingReview = TRUE,
                     !.featureReason = FeatureRuleReasons(doc), !.lastFeaturedAt = t]
    ELSE doc

\* The fields saveOrUpdatePropertyWithNewSchema $sets (upsert).
saveOrUpdatePropertyWithNewSchema(externalId, apiData, t) ==
    applyFeatureRules(
        [externalId |-> externalId,
         name |-> OrElse(apiData.name, "Unknown Property"),
         is_partner_project |-> apiData.is_partner_project,
         min_price |-> apiData.min_price,
         completePropertyData |-> apiData,
         status |-> "active",
         featured |-> FALSE,
         pendingReview |-> FALSE,
         featureReason |-> {},
         reelly_status |-> TRUE,
         lastFeaturedAt |-> NoDate,
         lastFetchedAt |-> t,
         cacheExpiresAt |-> t + CacheTTLHours],
        t)

\* getPropertyById(id) when it goes to upstream: the stored copy is missing,
\* expired or marked absent.  api is what fetchPropertyFromReallyAPI returns:
\* the payload, or NoData for null (a 404, or a body without an id); when it
\* throws, getPropertyById writes nothing.
getPropertyById(id, env) ==
    /\ Quiet(env)
    /\ ~(id \in DOMAIN store /\ ~isExpired(store[id], now) /\ store[id].reelly_status)
    /\ \E api \in Bodies(env, id) \cup {NoData} :
        /\ api = NoData => id \in DOMAIN store
        /\ store' = IF api # NoData
                    THEN [k \in DOMAIN store \cup {id} |->
                            IF k = id THEN saveOrUpdatePropertyWithNewSchema(id, api, now)
                            ELSE store[k]]
                    ELSE [store EXCEPT ![id].reelly_status = FALSE,
                                       ![id].status = "disabled"]
        /\ ev' = [op |-> "getPropertyById", id |-> id, found |-> api # NoData,
                  marked |-> /\ api = NoData
                             /\ (store[id].reelly_status \/ store[id].status # "disabled")]
    /\ UNCHANGED <<now, isRunning, intervalId, config, cyc, absent, rq, lastCycleAt>>

\* ------------------------------------- CacheService.clearExpiredCache

\* clearExpiredCache(): Property.deleteMany({ cacheExpiresAt: { $lt: now } })
clearExpiredCache(env) ==
    /\ Quiet(env)
    /\ LET expired == {id \in DOMAIN store : store[id].cacheExpiresAt < now}
       IN  /\ expired # {}
           /\ store' = [id \in DOMAIN store \ expired |-> store[id]]
           /\ ev' = [op |-> "clearExpiredCache", removed |-> expired]
    /\ UNCHANGED <<now, isRunning, intervalId, config, cyc, absent, rq, lastCycleAt>>

\* ------------------------------------------------------------- the clock

Tick(env) ==
    /\ Quiet(env)
    /\ \E d \in env.steps :
        /\ now + d <= env.horizon
        /\ now' = now + d
    /\ ev' = [op |-> "tick"]
    /\ UNCHANGED <<store, isRunning, intervalId, config, cyc, absent, rq, lastCycleAt>>

\* ------------------------------------------------------- specifications

\* The configuration the constructor builds; batchSize is PROPERTY_SYNC_BATCH_SIZE
\* when the environment sets it.
BatchSizes == {1, DefaultBatchSize}
InitConfigs ==
    {[enabled |-> TRUE, intervalMinutes |-> 1440, maxRetries |-> DefaultMaxRetries,
      batchSize |-> b, minSyncIntervalHours |-> DefaultMinSyncIntervalHours,
      skipIfRecentData |-> TRUE, baseUrl |-> TRUE, apiKey |-> TRUE] : b \in BatchSizes}

\* No makeApiRequest call under examination, and one not yet made.
NoResult == [ok |-> FALSE, error |-> [kind |-> "none", status |-> NetworkError],
             calls |-> 0, delays |-> <<>>]
RqIdle == [phase |-> "idle", maxRetries |-> DefaultMaxRetries, outs |-> <<>>,
           result |-> NoResult]

\* Stores an earlier run left behind: documents as createProperty wrote them at time 0.
InitStores ==
    {[id \in S |-> createProperty(DetailBody(id, TRUE, 0, 0, "Regular Area"), 0)] :
        S \in {{}, Ids}}

Init ==
    /\ now = 0
    /\ store \in InitStores
    /\ isRunning = FALSE
    /\ intervalId = FALSE
    /\ config \in InitConfigs
    /\ cyc = [c \in Slots |-> IdleCycle]
    /\ absent = [id \in Ids |-> 0]
    /\ ev = [op |-> "init"]
    /\ rq = RqIdle
    /\ lastCycleAt = IF DOMAIN store = {} THEN NoDate ELSE 0

\* The steps of one runSync invocation.
Cycle(env) ==
    \/ \E c \in Slots : FetchPage(c, env)
    \/ \E c \in Slots : ProcessLookup(c, env)
    \/ \E c \in Slots : ProcessFetch(c, env)
    \/ \E c \in Slots : Sweep(c, env)

OverlapWalkLen == 1
OverlapPages == 1
MainEnv == [overlap |-> FALSE, faults |-> TRUE, writers |-> TRUE, walk |-> MaxWalkLen,
            pages |-> MaxPages, track |-> FALSE,
            varied |-> FALSE, steps |-> TickSteps, horizon |-> MaxTime, sparse |-> FALSE]
SeqEnv == [overlap |-> FALSE, faults |-> FALSE, writers |-> FALSE, walk |-> MaxWalkLen,
           pages |-> MaxPages, track |-> TRUE,
            varied |-> FALSE, steps |-> TickSteps, horizon |-> MaxTime, sparse |-> FALSE]
StoreEnv == [overlap |-> FALSE, faults |-> TRUE, writers |-> TRUE, walk |-> OverlapWalkLen,
             pages |-> MaxPages, track |-> FALSE,
            varied |-> FALSE, steps |-> TickSteps, horizon |-> MaxTime, sparse |-> FALSE]
SchedEnv == [overlap |-> TRUE, faults |-> FALSE, writers |-> FALSE, walk |-> OverlapWalkLen,
             pages |-> OverlapPages, track |-> FALSE,
            varied |-> FALSE, steps |-> TickSteps, horizon |-> MaxTime, sparse |-> FALSE]

\* Spec: cycles begun by the manual trigger, one at a time, against a store whose
\* calls may throw and an upstream whose requests may fail; time passes meanwhile.
Next ==
    \/ TriggerManualSync(MainEnv)
    \/ Cycle(MainEnv)
    \/ Tick(MainEnv)
Spec == Init /\ [][Next]_vars

\* SeqSpec: the same cycles against a store that answers every call; the history
\* of consecutive walks is kept.
SeqNext ==
    \/ TriggerManualSync(SeqEnv)
    \/ Cycle(SeqEnv)
    \/ Tick(SeqEnv)
SeqSpec == Init /\ [][SeqNext]_vars

\* StoreSpec: cycles of short walks beside the other writers of the store, the
\* read-through getPropertyById and cleanupProperties, acting at any moment.
StoreNext ==
    \/ TriggerManualSync(StoreEnv)
    \/ Cycle(StoreEnv)
    \/ cleanupProperties(StoreEnv)
    \/ \E id \in Ids : getPropertyById(id, StoreEnv)
    \/ Tick(StoreEnv)
StoreInit == Init /\ config.batchSize = DefaultBatchSize
StoreSpec == StoreInit /\ [][StoreNext]_vars

\* SchedSpec: the scheduler.  start, stop, the timer, the manual trigger and
\* updateConfig are called at any moment, also while a cycle is in flight.
SchedNext ==
    \/ Start(SchedEnv)
    \/ Stop
    \/ TimerTick(SchedEnv)
    \/ TriggerManualSync(SchedEnv)
    \/ UpdateConfig(SchedEnv)
    \/ Cycle(SchedEnv)
SchedInit == Init /\ config.batchSize = DefaultBatchSize
SchedSpec == SchedInit /\ [][SchedNext]_vars

\* GateSpec: the scheduled path.  start and the timer call runSmartSync between
\* cycles while time passes and the read-through getPropertyById writes the store; the
\* time each cycle completed is kept.
GateEnv == [overlap |-> FALSE, faults |-> FALSE, writers |-> FALSE, walk |-> OverlapWalkLen,
            pages |-> OverlapPages, track |-> TRUE,
            varied |-> FALSE, steps |-> TickSteps, horizon |-> MaxTime, sparse |-> FALSE]
GateNext ==
    \/ Start(GateEnv)
    \/ TimerTick(GateEnv)
    \/ Cycle(GateEnv)
    \/ \E id \in Ids : getPropertyById(id, GateEnv)
    \/ Tick(GateEnv)
GateInit == Init /\ config.batchSize = DefaultBatchSize
GateSpec == GateInit /\ [][GateNext]_vars

\* One call of makeApiRequest against a scripted sequence of HTTP outcomes.
CallMakeApiRequest ==
    /\ rq.phase = "ready"
    /\ rq' = [rq EXCEPT !.phase = "returned",
                        !.result = makeApiRequest(rq.outs, rq.maxRetries)]
    /\ ev' = [op |-> "makeApiRequest"]
    /\ UNCHANGED <<now, store, isRunning, intervalId, config, cyc, absent, lastCycleAt>>

\* RetrySpec: makeApiRequest on its own, for every maxRetries up to the bound and
\* every sequence of outcomes of its HTTP calls.
RetryInit ==
    /\ now = 0
    /\ store = [id \in {} |-> NoData]
    /\ isRunning = FALSE
    /\ intervalId = FALSE
    /\ config \in InitConfigs
    /\ cyc = [c \in Slots |-> IdleCycle]
    /\ absent = [id \in Ids |-> 0]
    /\ ev = [op |-> "init"]
    /\ lastCycleAt = NoDate
    /\ \E m \in 1..MaxRetriesBound :
        \E o \in OutcomeSeqs(m) :
            rq = [phase |-> "ready", maxRetries |-> m, outs |-> o, result |-> NoResult]

RetryNext == CallMakeApiRequest
RetrySpec == RetryInit /\ [][RetryNext]_vars

\* One call of shouldSkipSync against the store as it stands.
CallShouldSkipSync ==
    /\ ev.op = "init"
    /\ \E threw \in BOOLEAN :
        ev' = [op |-> "shouldSkipSync", threw |-> threw, skip |-> shouldSkipSyncCatch(threw)]
    /\ UNCHANGED <<now, store, isRunning, intervalId, config, cyc, absent, rq, lastCycleAt>>

\* Stores of up to MaxStored documents, each active or disabled, listed upstream or
\* marked absent, last fetched just inside or just outside the 24 hours before now.
SkipNow == RecentWindowHours + 1
SkipKinds == [t : {0, 1}, status : {"active", "disabled"}, reelly_status : BOOLEAN]
SkipDoc(id, k) ==
    [createProperty(DetailBody(id, TRUE, 0, 0, "Regular Area"), k.t)
        EXCEPT !.status = k.status, !.reelly_status = k.reelly_status]
\* SkipSpec: shouldSkipSync on its own, over every such store.
SkipInit ==
    /\ now = SkipNow
    /\ \E n \in 0..MaxStored :
        \E ks \in [1..n -> SkipKinds] :
            store = [id \in 1..n |-> SkipDoc(id, ks[id])]
    /\ isRunning = FALSE
    /\ intervalId = FALSE
    /\ config \in {c \in InitConfigs : c.batchSize = DefaultBatchSize}
    /\ cyc = [c \in Slots |-> IdleCycle]
    /\ absent = [id \in Ids |-> 0]
    /\ ev = [op |-> "init"]
    /\ rq = RqIdle
    /\ lastCycleAt = NoDate

SkipNext == CallShouldSkipSync
SkipSpec == SkipInit /\ [][SkipNext]_vars

\* FeatureSpec: the operations of the sync service on the store (cycles begun by
\* the manual trigger, and cleanup) against an upstream whose detail of a
\* property changes from one fetch to the next, over two expiries of the cache.
FeatureHorizon == 50
FeatureEnv == [overlap |-> FALSE, faults |-> FALSE, writers |-> FALSE, walk |-> OverlapWalkLen,
               pages |-> OverlapPages, track |-> FALSE,
               varied |-> TRUE, steps |-> TickSteps, horizon |-> FeatureHorizon, sparse |-> FALSE]
FeatureNext ==
    \/ TriggerManualSync(FeatureEnv)
    \/ Cycle(FeatureEnv)
    \/ cleanupProperties(FeatureEnv)
    \/ Tick(FeatureEnv)
FeatureSpec == Init /\ [][FeatureNext]_vars

\* ConfigSpec: the service constructed with or without externalApi.baseUrl and
\* externalApi.apiKey; cycles begun by start(), the timer and the manual trigger.
ConfigEnv == [overlap |-> FALSE, faults |-> FALSE, writers |-> FALSE, walk |-> OverlapWalkLen,
              pages |-> OverlapPages, track |-> FALSE,
              varied |-> FALSE, steps |-> TickSteps, horizon |-> MaxTime, sparse |-> FALSE]
ConfigNext ==
    \/ Start(ConfigEnv)
    \/ TimerTick(ConfigEnv)
    \/ TriggerManualSync(ConfigEnv)
    \/ \E c \in Slots : ConfigurationError(c, ConfigEnv)
    \/ Cycle(ConfigEnv)
    \/ Tick(ConfigEnv)
ConfigInit ==
    /\ now = 0
    /\ store \in InitStores
    /\ isRunning = FALSE
    /\ intervalId = FALSE
    /\ \E c \in InitConfigs, url \in BOOLEAN, key \in BOOLEAN :
        /\ c.batchSize = DefaultBatchSize
        /\ config = [c EXCEPT !.baseUrl = url, !.apiKey = key]
    /\ cyc = [c \in Slots |-> IdleCycle]
    /\ absent = [id \in Ids |-> 0]
    /\ ev = [op |-> "init"]
    /\ rq = RqIdle
    /\ lastCycleAt = IF DOMAIN store = {} THEN NoDate ELSE 0
ConfigSpec == ConfigInit /\ [][ConfigNext]_vars

\* CleanupSpec: the operations that run on request between cycles (cleanup, the
\* cache service's clearing of expired entries, the read-through of one
\* property) over a month: the clock moves by a day or by the 30 days of grace.
CleanupSteps == {25, CleanupGraceHours}
CleanupHorizon == 745
CleanupEnv == [overlap |-> FALSE, faults |-> FALSE, writers |-> FALSE, walk |-> OverlapWalkLen,
               pages |-> OverlapPages, track |-> FALSE,
               varied |-> FALSE, steps |-> CleanupSteps, horizon |-> CleanupHorizon, sparse |-> FALSE]
CleanupNext ==
    \/ cleanupProperties(CleanupEnv)
    \/ clearExpiredCache(CleanupEnv)
    \/ \E id \in Ids : getPropertyById(id, CleanupEnv)
    \/ Tick(CleanupEnv)
CleanupInit == Init /\ config.batchSize = DefaultBatchSize
CleanupSpec == CleanupInit /\ [][CleanupNext]_vars

\* WalkSpec: fetchAllPropertyIds on its own, over walks of up to WalkSpecPages
\* pages; a walk that has a page to request requests it (it awaits nothing else).
WalkSpecLen == 3
WalkSpecPages == 3
WalkEnv == [overlap |-> FALSE, faults |-> FALSE, writers |-> FALSE, walk |-> WalkSpecLen,
            pages |-> WalkSpecPages, track |-> FALSE,
            varied |-> FALSE, steps |-> TickSteps, horizon |-> MaxTime, sparse |-> FALSE]
WalkNext ==
    \/ TriggerManualSync(WalkEnv)
    \/ \E c \in Slots : FetchPage(c, WalkEnv)
WalkInit == Init /\ config.batchSize = DefaultBatchSize /\ DOMAIN store = {}
WalkSpec ==
    WalkInit /\ [][WalkNext]_vars /\ WF_vars(\E c \in Slots : FetchPage(c, WalkEnv))

\* UpdateSpec: manual cycles of one-id walks against an upstream whose details
\* leave the name out or send it empty, the cache expiring between cycles.
UpdateEnv == [overlap |-> FALSE, faults |-> FALSE, writers |-> FALSE, walk |-> OverlapWalkLen,
              pages |-> OverlapPages, track |-> FALSE,
              varied |-> FALSE, steps |-> TickSteps, horizon |-> MaxTime, sparse |-> TRUE]
UpdateNext ==
    \/ TriggerManualSync(UpdateEnv)
    \/ Cycle(UpdateEnv)
    \/ Tick(UpdateEnv)
UpdateInit == Init /\ DOMAIN store = {}
UpdateSpec == UpdateInit /\ [][UpdateNext]_vars

\* analyzeFeaturingPotential(property, propertyData) applied, on its own, to the
\* document and the payload drawn in the initial state.
CallAnalyzeFeaturingPotential ==
    /\ ev.op = "init"
    /\ store' = [store EXCEPT ![1] = analyzeFeaturingPotential(store[1], ev.data)]
    /\ ev' = [op |-> "analyzed", data |-> ev.data, before |-> store[1]]
    /\ UNCHANGED <<now, isRunning, intervalId, config, cyc, absent, rq, lastCycleAt>>

\* Every payload that meets or just misses each rule, and every document of id 1
\* as to the reasons it holds (true of it or not), its featured flag and status.
AnalysisBodies ==
    {DetailBody(1, p, f, a, area) :
        p \in BOOLEAN, f \in {ManyFacilities - 1, ManyFacilities},
        a \in {ManyImages - 1, ManyImages},
        area \in {"Regular Area", "Business Bay", NoVal}}
AnalysisReasons ==
    {"is_partner_project", "facilities.length >= 10", "architecture.length >= 5",
     "premium_location"}
AnalysisDocs ==
    {[createProperty(DetailBody(1, FALSE, 0, 0, "Regular Area"), 0)
        EXCEPT !.featureReason = fr, !.featured = f, !.status = st] :
        fr \in SUBSET AnalysisReasons, f \in BOOLEAN,
        st \in {"active", "disabled", "draft"}}
\* AnalyzeSpec: analyzeFeaturingPotential on its own, over those inputs.
AnalyzeInit ==
    /\ now = 0
    /\ \E doc \in AnalysisDocs : store = [id \in {1} |-> doc]
    /\ isRunning = FALSE
    /\ intervalId = FALSE
    /\ config \in {c \in InitConfigs : c.batchSize = DefaultBatchSize}
    /\ cyc = [c \in Slots |-> IdleCycle]
    /\ absent = [id \in Ids |-> 0]
    /\ \E data \in AnalysisBodies : ev = [op |-> "init", data |-> data]
    /\ rq = RqIdle
    /\ lastCycleAt = NoDate

AnalyzeNext == CallAnalyzeFeaturingPotential
AnalyzeSpec == AnalyzeInit /\ [][AnalyzeNext]_vars

\* ------------------------------------------------------------ properties

\* C1: at most one sync cycle (runSync) is in progress at any time; a trigger, timer
\* tick or start() while a cycle is in flight starts no second one.
C1_AtMostOneCycle == Cardinality(InFlight) <= 1

\* C2: when the page walk ended early on a list page that could not be fetched (a
\* 404 included), the sweep of that cycle marks no record absent.
C2_NoSweepOnPartialWalk ==
    (ev.op = "cycleDone" /\ ev.walkCut) => ev.marked = {}

\* C3: reelly_status goes from true to false only in the sweep of a cycle whose walk
\* enumerated the whole listing; no other step does it.
C3_OnlyFullSweepMarksAbsent ==
    [][\A id \in DOMAIN store :
          (id \in DOMAIN store' /\ store[id].reelly_status /\ ~store'[id].reelly_status)
              => (ev'.op = "cycleDone" /\ ~ev'.walkCut)]_vars

\* C4: when reconciling one id fails, stats.errors grows by exactly 1, the cycle goes
\* on with the next id (of this batch or the next) or, after the last id, with the
\* sweep; only the walk can fail a cycle, and a completed cycle handled every id.
C4_ItemErrorIsolated ==
    /\ ev.op = "itemError" =>
          /\ cyc[ev.c].stats.errors = ev.errorsBefore + 1
          /\ IF ev.idx + 1 < Len(cyc[ev.c].propertyIds)
             THEN cyc[ev.c].pc = "item" /\ cyc[ev.c].pos = ev.idx + 1
             ELSE cyc[ev.c].pc = "sweep"
    /\ ev.op = "cycleFailed" => ev.stage = "walk"
    /\ ev.op = "cycleDone" => ev.stats.totalProcessed = Len(ev.propertyIds)

\* An id failed and another id of the walk is up next.
C4_Witness ==
    /\ ev.op = "itemError"
    /\ ev.idx + 1 < Len(cyc[ev.c].propertyIds)
    /\ cyc[ev.c].pc = "item"

FirstSuccess(outs) ==
    LET ok == {k \in 1..Len(outs) : outs[k] >= 200 /\ outs[k] < 300}
    IN  IF ok = {} THEN 0 ELSE CHOOSE k \in ok : \A j \in ok : k <= j

TerminalStatuses == {st \in Statuses : st >= 300 /\ st < 500 /\ st # 429}
C7_TerminalNoRetry ==
    rq.phase = "returned" =>
        \A j \in 1..rq.result.calls :
            rq.outs[j] \in TerminalStatuses =>
                /\ rq.result.calls = j
                /\ ~rq.result.ok
                /\ Len(rq.result.delays) = j - 1

\* C8 as stated: an id of the walk gets a detail fetch unless its stored record is
\* not stale and has reelly_status true; then it gets none and counts as skipped.
\* (Steps in which the store lookup or save threw are left aside.)
C8_FetchUnlessFreshAndPresent ==
    [][\A c \in Slots :
          (cyc[c].pc = "item" /\ cyc'[c] # cyc[c] /\ ev'.op # "itemError") =>
              LET id == CurrentId(cyc[c])
                  fresh == id \in DOMAIN store /\ now <= store[id].cacheExpiresAt
              IN  IF fresh /\ store[id].reelly_status
                  THEN /\ cyc'[c].pc # "fetch"
                       /\ cyc'[c].stats.skippedDuplicates =
                              cyc[c].stats.skippedDuplicates + 1
                  ELSE cyc'[c].pc = "fetch"]_vars

\* C8, amended: each occurrence of an id in the walk gets exactly one detail fetch
\* when the lookup finds no record or a stale one, and none when the stored record
\* is not stale, whatever its reelly_status: it counts as skipped and ends with
\* reelly_status true.  When the lookup or the reactivating save throws, no fetch
\* is made either.
C8_FetchUnlessFresh ==
    [][\A c \in Slots :
          /\ (cyc[c].pc = "item" /\ cyc'[c] # cyc[c]) =>
                LET id == CurrentId(cyc[c])
                    fresh == id \in DOMAIN store /\ now <= store[id].cacheExpiresAt
                IN  IF ev'.op = "itemError"
                    THEN cyc'[c].pc # "fetch" /\ ev'.fetches = 0
                    ELSE IF fresh
                    THEN /\ cyc'[c].pc # "fetch"
                         /\ ev'.fetches = 0
                         /\ cyc'[c].stats.skippedDuplicates =
                                cyc[c].stats.skippedDuplicates + 1
                         /\ store'[id].reelly_status
                    ELSE cyc'[c].pc = "fetch"
          /\ (cyc[c].pc = "fetch" /\ cyc'[c] # cyc[c]) =>
                /\ ev'.fetches = 1
                /\ cyc'[c].pc # "fetch"
                /\ cyc'[c].stats.totalProcessed = cyc[c].stats.totalProcessed]_vars

\* A record marked absent and not stale was skipped without a fetch, and reactivated.
C8_Witness ==
    /\ ev.op = "reactivated"
    /\ ev.fetches = 0
    /\ store[ev.id].reelly_status
    /\ cyc[ev.c].stats.skippedDuplicates >= 1

\* C9: when the detail request of an id is answered 404, reconciling the id leaves
\* the store and the errors, new and updated counters as they were.
C9_NotFoundChangesNothing ==
    [][\A c \in Slots :
          (cyc[c].pc = "fetch" /\ cyc'[c] # cyc[c] /\ ev'.first404) =>
              /\ store' = store
              /\ cyc'[c].stats.errors = cyc[c].stats.errors
              /\ cyc'[c].stats.newProperties = cyc[c].stats.newProperties
              /\ cyc'[c].stats.updatedProperties = cyc[c].stats.updatedProperties]_vars

CountedRecords == {id \in DOMAIN store : store[id].status = "active" /\ store[id].reelly_status}
RecentRecords == {id \in CountedRecords : now - store[id].lastFetchedAt <= 24}

C13_ScheduledRunsIffGate ==
    [][ev'.op \in {"start", "timer"} =>
          (ev'.ran <=>
              /\ ~(config.skipIfRecentData /\ shouldSkipSync)
              /\ lastCycleAt # NoDate =>
                    now - lastCycleAt >= config.minSyncIntervalHours)]_vars

\* C14: triggerManualSync always begins a cycle, whatever the decision gate says: the
\* call is possible in every state (of the model: while an invocation slot is free),
\* it enters runSync at the walk, and the cycle it began ends early only when the
\* walk fails; the recent-data check, the minimum interval and the enabled flag do
\* not stop it.
C14_ManualAlwaysRuns ==
    /\ (\E c \in Slots : cyc[c].pc = "idle") => ENABLED TriggerManualSync(SchedEnv)
    /\ ev.op = "manual" =>
          /\ ev.ran
          /\ cyc[ev.c] = NewCycle("manual")
    /\ (ev.op = "cycleFailed" /\ ev.trigger = "manual") => ev.stage = "walk"

\* A manual trigger began a cycle while the service was disabled and runSmartSync
\* would have skipped.
C14_Witness ==
    /\ ev.op = "manual"
    /\ ev.ran
    /\ cyc[ev.c].pc = "walk"
    /\ ~config.enabled
    /\ ~SmartSyncRuns

\* C15: start() called while the service is running changes nothing: isRunning and
\* the timer stay as they are, no timer is armed, no sync check is launched and no
\* cycle begins.
C15_StartWhileRunningIsNoOp ==
    [][(isRunning /\ ev'.op \in {"start", "startIgnored"}) =>
          /\ ev'.op = "startIgnored"
          /\ ~ev'.ran
          /\ isRunning' = isRunning
          /\ intervalId' = intervalId
          /\ cyc' = cyc
          /\ config' = config /\ store' = store]_vars

\* start() was called on an enabled, running service with its timer armed, and ignored.
C15_Witness ==
    /\ ev.op = "startIgnored"
    /\ config.enabled
    /\ isRunning
    /\ intervalId

\* C16: updateConfig with a new interval on a running service re-arms the timer,
\* leaves the service running, leaves the cycles in flight alone and starts no sync
\* itself.
C16_IntervalChangeOnlyRearms ==
    [][ev'.op = "restart" =>
          /\ isRunning'
          /\ intervalId'
          /\ ~ev'.ran
          /\ cyc' = cyc]_vars

\* C17: while config.enabled is false no scheduled sync (from start, a restart or a
\* timer tick) runs a cycle.
C17_DisabledRunsNoScheduledCycle ==
    (~config.enabled /\ ev.op \in {"start", "restart", "timer"}) => ~ev.ran

\* C18: the id list of the walk holds no id twice.
C18_WalkHasNoDuplicates ==
    \A c \in Slots :
        \A j, k \in 1..Len(cyc[c].propertyIds) :
            j # k => cyc[c].propertyIds[j] # cyc[c].propertyIds[k]

\* C19: the walk asks for page 1, 2, ... in turn, one request per page; each page
\* fetched adds the ids of its records, in their order, at the end of the list and
\* nothing else is added; the walk goes on to the next page exactly when the page
\* says there is more, and otherwise ends with the list as it stands.
C19_WalkConcatenatesPages ==
    /\ [](\A c \in Slots : cyc[c].pc = "walk" /\ cyc[c].currentPage = 1
                                => cyc[c].propertyIds = <<>>)
    /\ [][ev'.op = "page" =>
            LET cy == cyc[ev'.c]
                after == cyc'[ev'.c]
            IN  /\ cy.pc = "walk"
                /\ ev'.page = cy.currentPage
                /\ after.propertyIds = cy.propertyIds \o ev'.pageIds
                /\ \A c \in Slots \ {ev'.c} : cyc'[c] = cyc[c]
                /\ IF ev'.more
                   THEN /\ after.pc = "walk"
                        /\ after.currentPage = cy.currentPage + 1
                   ELSE /\ after.pc \in {"item", "sweep"}
                        /\ after.currentPage \in {cy.currentPage, cy.currentPage + 1}]_vars
    /\ [][\A c \in Slots :
            (cyc[c].pc \in {"item", "fetch"} /\ cyc'[c].pc \in {"item", "fetch", "sweep"})
                => cyc'[c].propertyIds = cyc[c].propertyIds]_vars

\* A walk ended on its second page with the ids of the first page followed by those
\* of the second.
C19_Witness ==
    /\ ev.op = "page"
    /\ ev.result = "ok"
    /\ ev.page = 2
    /\ ~ev.more
    /\ ev.collected # <<>>
    /\ ev.pageIds # <<>>
    /\ cyc[ev.c].propertyIds = ev.collected \o ev.pageIds

\* C20: no write from upstream data (create, update, sweep, cleanup, read-through
\* refresh) sets featured or lastFeaturedAt: with no administrator acting, every
\* stored record has featured false and no lastFeaturedAt, whatever its featureReason.
C20_NeverFeaturedByUpstream ==
    \A id \in DOMAIN store :
        /\ ~store[id].featured
        /\ store[id].lastFeaturedAt = NoDate

\* The signals a detail gives rise to, as the service documents them: a partner
\* project, 10 or more facilities, 5 or more architecture images, a premium area.
C21_Signals(data) ==
    {r \in AnalysisReasons :
        \/ r = "is_partner_project" /\ data.is_partner_project
        \/ r = "facilities.length >= 10" /\ data.facilities >= 10
        \/ r = "architecture.length >= 5" /\ data.architecture >= 5
        \/ r = "premium_location" /\ data.area \in PremiumAreas}

\* C21: the signals analyzeFeaturingPotential records are a function of the detail
\* alone: whatever featureReason the record held, it holds afterwards what it
\* held plus the signals of the detail, and status, featured and lastFeaturedAt
\* (every other field, in fact) are as they were.
C21_SignalsPureNoPromotion ==
    ev.op = "analyzed" =>
        /\ store[1].featureReason = ev.before.featureReason \cup C21_Signals(ev.data)
        /\ store[1] = [ev.before EXCEPT !.featureReason = store[1].featureReason]

\* C21 witness: a detail with signals analysed on a record an administrator has
\* featured and disabled and that already held other reasons.
C21_Witness ==
    /\ ev.op = "analyzed"
    /\ ev.before.featured /\ ev.before.status = "disabled"
    /\ ev.before.featureReason = {"premium_location"}
    /\ C21_Signals(ev.data) = {"is_partner_project", "architecture.length >= 5"}
    /\ store[1].featured /\ store[1].status = "disabled"

\* C22: over the operations of the sync service (create, update, reactivation,
\* sweep, cleanup) the featureReason of a record only grows: no step removes a
\* reason from a record it leaves in the store.
C22_SignalsOnlyGrow ==
    [][\A id \in DOMAIN store \cap DOMAIN store' :
          store[id].featureReason \subseteq store'[id].featureReason]_vars

\* C22 witness: an update has stored a detail that no longer matches the rule
\* behind a reason the record still holds.
C22_Witness ==
    /\ ev.op = "updated"
    /\ \E r \in store[ev.id].featureReason :
          r \notin C21_Signals(store[ev.id].completePropertyData)

C24_OneRecordPerExternalId ==
    /\ [](\A id \in DOMAIN store : store[id].externalId = id)
    /\ [][ev'.op = "created" =>
            /\ ev'.id \notin DOMAIN store
            /\ DOMAIN store' = DOMAIN store \cup {ev'.id}
            /\ \A k \in DOMAIN store : store'[k] = store[k]]_vars
    /\ [][\A c \in Slots :
            (cyc[c].pc = "fetch" /\ cyc[c].existing = <<>> /\ cyc'[c] # cyc[c]
                /\ CurrentId(cyc[c]) \in DOMAIN store)
            => (store' = store /\ ev'.op \in {"itemError", "nodata"})]_vars

\* C24 witness: two overlapping cycles both found id 1 missing; the first has
\* created it and the insert of the second has just been rejected.
C24_Witness ==
    /\ ev.op = "itemError" /\ ev.result = "ok" /\ ~ev.isUpdate
    /\ ev.id \in DOMAIN store
    /\ \E c \in Slots : c # ev.c /\ cyc[c].stats.newProperties = 1

\* C25: while baseUrl or apiKey is missing, a cycle that was begun makes one step
\* only, the failure with the configuration error (one error counted, nothing
\* else): no cycle gets past its start, no list or detail request is made, the
\* store is never written and no sweep runs.
C25_MissingConfigurationFailsFast ==
    /\ []((~config.baseUrl \/ ~config.apiKey) =>
            \A c \in Slots : /\ cyc[c].pc \in {"idle", "walk"}
                             /\ cyc[c].propertyIds = <<>>
                             /\ cyc[c].fetched = {})
    /\ [][(~config.baseUrl \/ ~config.apiKey) =>
            /\ store' = store
            /\ ev'.op \in {"start", "startIgnored", "timer", "manual", "tick",
                           "cycleFailed"}
            /\ \A c \in Slots :
                 (cyc[c].pc = "walk" /\ cyc'[c] # cyc[c]) =>
                    /\ ev'.op = "cycleFailed" /\ ev'.c = c /\ ev'.stage = "config"
                    /\ ev'.stats = [ZeroStats EXCEPT !.errors = 1]]_vars

\* C25 witness: the API key is missing, the store holds records, and a cycle begun
\* by the manual trigger has just failed with the configuration error.
C25_Witness ==
    /\ config.baseUrl /\ ~config.apiKey
    /\ DOMAIN store # {}
    /\ ev.op = "cycleFailed" /\ ev.stage = "config" /\ ev.trigger = "manual"

C29_TimerArmedIffRunning ==
    /\ [](intervalId <=> isRunning)
    /\ [][(ev'.op = "start" /\ config.enabled /\ ~isRunning) => isRunning']_vars
    /\ [][ev'.op = "stop" => (isRunning /\ ~isRunning' /\ ~intervalId')]_vars
    /\ [][ev'.op = "timer" => (isRunning /\ intervalId)]_vars
    /\ [](~isRunning => ~ENABLED TimerTick(SchedEnv))

\* C29 witness: the service was started, a cycle it began is still in flight,
\* and it has just been stopped: not running, timer cleared.
C29_Witness ==
    /\ ev.op = "stop"
    /\ ~isRunning /\ ~intervalId
    /\ \E c \in Slots : cyc[c].pc # "idle" /\ cyc[c].trigger = "smart"

\* C30: on an empty store a scheduled sync (start() or a timer tick) always goes
\* on to run a cycle: neither the recent-data check nor the minimum-interval
\* gate skips it.
C30_EmptyStoreAlwaysSyncs ==
    [][(DOMAIN store = {} /\ ev'.op \in {"start", "timer"}) =>
          /\ ev'.ran
          /\ cyc'[ev'.c] = NewCycle("smart")]_vars

\* C30 witness: a cycle has completed on an empty upstream, the store is still
\* empty, and the timer tick that follows has begun another cycle.
C30_Witness ==
    /\ DOMAIN store = {}
    /\ lastCycleAt # NoDate
    /\ ev.op = "timer" /\ ev.ran
    /\ cyc[ev.c] = NewCycle("smart")

\* A list response after which the walk is to stop: no entries, or metadata with
\* neither has_next nor a page count beyond this page, or, without metadata,
\* fewer than 50 entries.
C31_LastPage(e) ==
    \/ e.length = 0
    \/ /\ e.pagination.present
       /\ ~e.pagination.has_next
       /\ e.page >= e.pagination.pages
    \/ ~e.pagination.present /\ e.length < 50

\* C31: the walk requests page 1 first and after a page with entries the next
\* page number; it requests another page after a list response exactly when the
\* response is not a last page, and after a last page the walk is over; every
\* walk comes to its end.
C31_WalkStopsAtLastPage ==
    /\ [][\A c \in Slots : (cyc[c].pc # "walk" /\ cyc'[c].pc = "walk") =>
                                cyc'[c].currentPage = 1]_vars
    /\ [][ev'.op = "page" /\ ev'.result = "ok" =>
            /\ cyc[ev'.c].pc = "walk"
            /\ ev'.page = cyc[ev'.c].currentPage
            /\ ev'.more <=> ~C31_LastPage(ev')
            /\ ev'.more => /\ cyc'[ev'.c].pc = "walk"
                           /\ cyc'[ev'.c].currentPage = ev'.page + 1
            /\ ~ev'.more => cyc'[ev'.c].pc # "walk"]_vars
    /\ \A c \in Slots : (cyc[c].pc = "walk") ~> (cyc[c].pc # "walk")

\* C31 witness: a walk has requested pages 1, 2 and 3: two pages were followed by
\* another, and the third, a page without metadata and with fewer than 50
\* entries, has just ended the walk.
C31_Witness ==
    /\ ev.op = "page" /\ ev.result = "ok" /\ ev.page = 3
    /\ ~ev.more /\ ~ev.pagination.present /\ ev.length > 0
    /\ cyc[ev.c].pc # "walk"
    /\ Len(cyc[ev.c].propertyIds) = 3

\* The outcomes of a call that the claim has retried: 429, 5xx, a network error.
C32_Retryable == {st \in Statuses : st = 429 \/ st >= 500 \/ st = NetworkError}

\* C32: after the n-th failed attempt of a retryable request, n < maxRetries, the
\* client waits 2^n x 1000 ms (5xx, network) or 2^n x 2000 ms (429) before the
\* next attempt, and no wait follows the final attempt: a request of k calls
\* has made at most k - 1 waits.
C32_BackoffSchedule ==
    rq.phase = "returned" =>
        /\ \A n \in 1..(rq.result.calls - 1) :
              rq.outs[n] \in C32_Retryable =>
                 /\ n <= Len(rq.result.delays)
                 /\ rq.result.delays[n] =
                       Pow2(n) * (IF rq.outs[n] = 429 THEN 2000 ELSE 1000)
        /\ Len(rq.result.delays) <= rq.result.calls - 1

\* C33: within one cycle the walk is over before any id is reconciled, the ids are
\* reconciled one at a time in list order, in batches of batchSize, each occurrence
\* once, and the sweep starts after the last batch with the list that was reconciled.
C33_ItemDone == {"itemError", "nodata", "updated", "created", "reactivated", "skipped"}
C33_ItemOps == C33_ItemDone \cup {"lookup"}
C33_WalkBatchesSweepInOrder ==
    /\ [][ev' # ev /\ ev'.op = "page" =>
             /\ cyc[ev'.c].pc = "walk"
             /\ cyc[ev'.c].stats.totalProcessed = 0
             /\ cyc'[ev'.c].pc = "item" => cyc'[ev'.c].pos = 0]_vars
    /\ [][ev' # ev /\ ev'.op \in C33_ItemOps =>
             LET was == cyc[ev'.c]
                 is == cyc'[ev'.c]
                 n == Len(was.propertyIds)
             IN  /\ was.pc \in {"item", "fetch"}
                 /\ is.propertyIds = was.propertyIds
                 /\ ev'.idx = was.pos
                 /\ ev'.id = was.propertyIds[ev'.idx + 1]
                 /\ is.stats.totalProcessed = ev'.idx + 1
                 /\ ev'.batchEnd = Min(((ev'.idx \div config.batchSize) + 1) * config.batchSize, n)
                 /\ ev'.op = "lookup" => is.pc = "fetch" /\ is.pos = was.pos
                 /\ ev'.op \in C33_ItemDone =>
                       IF ev'.idx + 1 < n THEN is.pc = "item" /\ is.pos = ev'.idx + 1
                       ELSE is.pc = "sweep"]_vars
    /\ [][ev' # ev /\ ev'.op = "cycleDone" =>
             /\ cyc[ev'.c].pc = "sweep"
             /\ ev'.propertyIds = cyc[ev'.c].propertyIds
             /\ ev'.stats.totalProcessed = Len(ev'.propertyIds)
             /\ cyc[ev'.c].i >= Len(ev'.propertyIds)]_vars

\* A cycle of two batches of one id each has swept.
C33_Witness ==
    /\ ev.op = "cycleDone"
    /\ Len(ev.propertyIds) = 2
    /\ config.batchSize = 1
    /\ ev.stats.totalProcessed = 2

C35_Timestamps == {"lastFetchedAt", "cacheExpiresAt"}
C35_ReconcileTwiceSameRecord ==
    [][/\ ev' # ev
       /\ ev'.op \in {"updated", "skipped"}
       /\ ev'.op = "updated" => store[ev'.id].completePropertyData = ev'.data
       => /\ \A f \in DOMAIN store[ev'.id] \ (C35_Timestamps \cup {"reelly_status"}) :
                store'[ev'.id][f] = store[ev'.id][f]
          /\ store'[ev'.id].reelly_status]_vars

\* C36: no step of the sync service (create, update, reactivation, skip, sweep,
\* cleanup's review marking) changes the status of a record it leaves in the
\* store, whatever it does to reelly_status; a record it creates is active.
C36_EngineOps ==
    {"lookup", "itemError", "nodata", "updated", "created", "reactivated", "skipped",
     "page", "cycleDone", "cleanup"}
C36_StatusLeftToAdministrator ==
    [][ev' # ev /\ ev'.op \in C36_EngineOps =>
         /\ \A id \in DOMAIN store \cap DOMAIN store' :
               store'[id].status = store[id].status
         /\ \A id \in DOMAIN store' \ DOMAIN store : store'[id].status = "active"]_vars

\* A disabled record that was marked absent has been updated from a detail and
\* is present again, still disabled.
C36_Witness ==
    /\ ev.op = "updated"
    /\ store[ev.id].status = "disabled"
    /\ store[ev.id].reelly_status

\* C37: an invocation of runSmartSync starts at most one cycle: when the cycle it
\* started fails, the invocation is over and no second cycle is started in it.
C37_FailedCycleEndsInvocation ==
    [][ev' # ev /\ ev'.op = "cycleFailed" /\ ev'.trigger = "smart" =>
         cyc'[ev'.c].pc = "idle"]_vars

\* C38: when a cycle completes, totalProcessed is the number of ids the walk
\* returned and equals newProperties + updatedProperties + skippedDuplicates +
\* errors + the ids whose detail fetch found no data; each id handled adds one to
\* exactly one of these five, and no counter decreases during a cycle.
C38_Tally(cy) ==
    <<cy.stats.newProperties, cy.stats.updatedProperties, cy.stats.skippedDuplicates,
      cy.stats.errors, cy.noData>>
C38_CountersPartitionIds ==
    /\ [](ev.op = "cycleDone" =>
            /\ ev.stats.totalProcessed = Len(ev.propertyIds)
            /\ ev.stats.totalProcessed =
                  ev.stats.newProperties + ev.stats.updatedProperties
                  + ev.stats.skippedDuplicates + ev.stats.errors + ev.noData)
    /\ [][ev' # ev /\ ev'.op \in C33_ItemDone =>
            \E k \in 1..5 :
               \A j \in 1..5 :
                  C38_Tally(cyc'[ev'.c])[j] =
                      C38_Tally(cyc[ev'.c])[j] + (IF j = k THEN 1 ELSE 0)]_vars
    /\ [][\A c \in Slots :
             cyc[c].pc # "idle" /\ cyc'[c].pc # "idle" /\ ev'.op # "cycleFailed" =>
                /\ \A j \in 1..5 : C38_Tally(cyc'[c])[j] >= C38_Tally(cyc[c])[j]
                /\ cyc'[c].stats.totalProcessed >= cyc[c].stats.totalProcessed]_vars

C40_AbsentRecordLeftAlone ==
    /\ [][ev' # ev /\ ev'.op \in C33_ItemOps \cup {"page", "cycleFailed"} =>
            \A id \in DOMAIN store :
               ~store[id].reelly_status /\ id \notin Range(cyc[ev'.c].propertyIds)
                  => id \in DOMAIN store' /\ store'[id] = store[id]]_vars
    /\ [][ev' # ev /\ ev'.op = "cycleDone" =>
            /\ \A id \in DOMAIN store :
                  ~store[id].reelly_status /\ id \notin Range(ev'.propertyIds)
                     => /\ id \in DOMAIN store' /\ store'[id] = store[id]
                        /\ id \notin ev'.marked
            /\ ev'.stats.markedInactive = Cardinality(ev'.marked)]_vars
    /\ [][\A id \in DOMAIN store \cap DOMAIN store' :
             ~store[id].reelly_status /\ ~store'[id].reelly_status
                => now' - store'[id].lastFetchedAt >= now - store[id].lastFetchedAt]_vars

\* A later cycle has completed without listing a record marked absent before:
\* the record still carries the time of its marking and nothing was marked.
C40_Witness ==
    /\ ev.op = "cycleDone"
    /\ ~ev.walkCut
    /\ ev.marked = {}
    /\ ev.stats.markedInactive = 0
    /\ \E id \in DOMAIN store :
          /\ ~store[id].reelly_status
          /\ id \notin Range(ev.propertyIds)
          /\ store[id].lastFetchedAt < now
====
